---------------------------- MODULE Spec2Model ----------------------------
(***************************************************************************)
(* Title 21 regulation search: the status classifier of app.py             *)
(* (RegulationScraper.analyze_regulation_status with its optional LLM      *)
(* delegate of llm_service.py), the vector index / hybrid ranker of        *)
(* rag_service.py, and the regulations database of app.py with the         *)
(* refresh thread, the reindex route and the search route.                 *)
(*                                                                         *)
(* Text is a sequence of one-character strings, so that lower(), strip()   *)
(* and the substring test `kw in text` are computed character by           *)
(* character as Python computes them.                                      *)
(***************************************************************************)
EXTENDS Integers, Sequences, FiniteSets, TLC

VARIABLES
    \* ---- RegulationScraper.analyze_regulation_status -------------------
    description,      \* argument: a text or None
    url,              \* argument: a text ('' when omitted) or None
    content,          \* argument: a text ('' when omitted) or None
    llm_analyzer,     \* self.llm_analyzer: "none" | "disabled" | "enabled"
    called,           \* TRUE once analyze_regulation_status has been called
    ret,              \* what the last call returned (or the exception raised)
    eff_content,      \* `content` local of the last call after the fetch block
    llm_result,       \* what the LLM delegate returned in the last call
    \* ---- RAGService ------------------------------------------------------
    use_local_embeddings,  \* self.use_local_embeddings
    index,            \* self.index: NoIndex or the FAISS index with its vectors
    regulations_metadata,  \* self.regulations_metadata
    is_indexed,       \* self.is_indexed
    index_file,       \* faiss_index_<collection>.pkl on disk
    metadata_file,    \* faiss_metadata_<collection>.json on disk
    last,             \* the RAGService call being answered: operation,
                      \* arguments and outcome; NoCall between calls
    \* ---- regulations.db and the routes of app.py -------------------------
    regulations_table,     \* committed rows of table regulations, in rowid order
    regulation_changes,    \* committed rows of table regulation_changes
    sqlite_sequence,       \* last AUTOINCREMENT id given out in regulations
    txn,              \* the thread that rewrites the table: its position,
                      \* its locals and its uncommitted transaction
    seen,             \* rows the last GET /api/regulations returned
    response          \* the last response of /api/search or /api/rag/index

classifier_vars == <<description, url, content, llm_analyzer, called, ret,
                     eff_content, llm_result>>
rag_vars == <<use_local_embeddings, index, regulations_metadata, is_indexed, index_file,
              metadata_file, last>>
store_vars == <<regulations_table, regulation_changes, sqlite_sequence, txn, seen,
                response>>
vars == <<classifier_vars, rag_vars, store_vars>>

-----------------------------------------------------------------------------
(* Python text primitives                                                  *)


\* one character of str.lower()
LowerOf ==
    ("A" :> "a") @@ ("B" :> "b") @@ ("C" :> "c") @@ ("D" :> "d") @@ ("E" :> "e") @@ ("F" :> "f") @@
    ("G" :> "g") @@ ("H" :> "h") @@ ("I" :> "i") @@ ("J" :> "j") @@ ("K" :> "k") @@ ("L" :> "l") @@
    ("M" :> "m") @@ ("N" :> "n") @@ ("O" :> "o") @@ ("P" :> "p") @@ ("Q" :> "q") @@ ("R" :> "r") @@
    ("S" :> "s") @@ ("T" :> "t") @@ ("U" :> "u") @@ ("V" :> "v") @@ ("W" :> "w") @@ ("X" :> "x") @@
    ("Y" :> "y") @@ ("Z" :> "z")

LowerChar(ch) == IF ch \in DOMAIN LowerOf THEN LowerOf[ch] ELSE ch

\* str.lower()
Lower(s) == [i \in 1..Len(s) |-> LowerChar(s[i])]

\* str.strip(): the only whitespace of the modelled alphabet is the blank
Strip(s) ==
    LET keep == {i \in 1..Len(s) : s[i] # " "}
    IN  IF keep = {} THEN <<>>
        ELSE SubSeq(s, CHOOSE i \in keep : \A j \in keep : i <= j,
                       CHOOSE i \in keep : \A j \in keep : i >= j)

\* `sub in s`
Contains(sub, s) ==
    \E i \in 0..(Len(s) - Len(sub)) : \A j \in 1..Len(sub) : s[i + j] = sub[j]

\* s.startswith(prefix)
StartsWith(s, prefix) ==
    /\ Len(s) >= Len(prefix)
    /\ \A j \in 1..Len(prefix) : s[j] = prefix[j]

\* `s in list`
InList(s, list) == \E k \in 1..Len(list) : list[k] = s

\* any(keyword in text for keyword in list)
AnyIn(list, text) == \E k \in 1..Len(list) : Contains(list[k], text)

\* sum(1 for keyword in list if keyword in text)
RECURSIVE CountIn(_, _)
CountIn(list, text) ==
    IF list = <<>> THEN 0
    ELSE (IF Contains(Head(list), text) THEN 1 ELSE 0) + CountIn(Tail(list), text)

\* Python's None, which is not a text
None == <<"<None>">>

S_None == <<"N","o","n","e">>
S_http == <<"h","t","t","p">>
S_reserved == <<"r","e","s","e","r","v","e","d">>

\* f"{x}": None formats as the text None
Format(x) == IF x = None THEN S_None ELSE x

\* truth value of a str-or-None
Truthy(x) == x # None /\ x # <<>>

-----------------------------------------------------------------------------
(* The keyword tables of analyze_regulation_status                         *)

prohibited_keywords ==
    << <<"p","r","o","h","i","b","i","t","e","d">>,
       <<"f","o","r","b","i","d","d","e","n">>,
       <<"n","o","t"," ","p","e","r","m","i","t","t","e","d">>,
       <<"n","o","t"," ","a","l","l","o","w","e","d">>,
       <<"b","a","n","n","e","d">>,
       <<"u","n","l","a","w","f","u","l">>,
       <<"i","l","l","e","g","a","l">>,
       <<"s","h","a","l","l"," ","n","o","t">>,
       <<"m","u","s","t"," ","n","o","t">>,
       <<"m","a","y"," ","n","o","t">>,
       <<"c","a","n","n","o","t">>,
       <<"p","r","o","h","i","b","i","t","s">>,
       <<"b","a","n">>,
       <<"o","u","t","l","a","w">>,
       <<"n","o"," ","p","e","r","s","o","n"," ","m","a","y">>,
       <<"n","o"," ","p","e","r","s","o","n"," ","s","h","a","l","l">>,
       <<"i","t"," ","i","s"," ","u","n","l","a","w","f","u","l">>,
       <<"i","t"," ","i","s"," ","i","l","l","e","g","a","l">>,
       <<"p","r","o","h","i","b","i","t","e","d"," ","f","r","o","m">>,
       <<"f","o","r","b","i","d","d","e","n"," ","t","o">>,
       <<"p","r","o","h","i","b","i","t","i","o","n">>,
       <<"m","a","y"," ","n","o","t"," ","b","e">>,
       <<"s","h","a","l","l"," ","n","o","t"," ","b","e">>,
       <<"m","u","s","t"," ","n","o","t"," ","b","e">>,
       <<"c","a","n","n","o","t"," ","b","e">> >>

prohibited_phrases ==
    << <<"s","h","a","l","l"," ","n","o","t">>,
       <<"m","u","s","t"," ","n","o","t">>,
       <<"m","a","y"," ","n","o","t">>,
       <<"c","a","n","n","o","t">>,
       <<"n","o"," ","p","e","r","s","o","n"," ","m","a","y">>,
       <<"n","o"," ","p","e","r","s","o","n"," ","s","h","a","l","l">>,
       <<"i","t"," ","i","s"," ","u","n","l","a","w","f","u","l">>,
       <<"i","t"," ","i","s"," ","i","l","l","e","g","a","l">>,
       <<"p","r","o","h","i","b","i","t","e","d"," ","f","r","o","m">>,
       <<"f","o","r","b","i","d","d","e","n"," ","t","o">> >>

allowed_keywords ==
    << <<"p","e","r","m","i","t","t","e","d">>,
       <<"a","l","l","o","w","e","d">>,
       <<"a","u","t","h","o","r","i","z","e","d">>,
       <<"a","p","p","r","o","v","e","d">>,
       <<"l","e","g","a","l">>,
       <<"m","a","y">>,
       <<"c","a","n">>,
       <<"s","h","a","l","l">>,
       <<"m","u","s","t">>,
       <<"r","e","q","u","i","r","e","s">>,
       <<"m","a","n","d","a","t","e","s">>,
       <<"r","e","g","u","l","a","t","i","o","n">>,
       <<"p","r","o","v","i","s","i","o","n">>,
       <<"r","e","q","u","i","r","e","m","e","n","t">>,
       <<"s","t","a","n","d","a","r","d">>,
       <<"g","u","i","d","e","l","i","n","e">> >>

organizational_keywords ==
    << <<"c","h","a","p","t","e","r">>,
       <<"s","u","b","c","h","a","p","t","e","r">> >>

organizational_labels ==
    << <<"c","h","a","p","t","e","r"," ","i">>,
       <<"c","h","a","p","t","e","r"," ","i","i">>,
       <<"c","h","a","p","t","e","r"," ","i","i","i">>,
       <<"s","u","b","c","h","a","p","t","e","r"," ","a">>,
       <<"s","u","b","c","h","a","p","t","e","r"," ","b">>,
       <<"s","u","b","c","h","a","p","t","e","r"," ","c">>,
       <<"s","u","b","c","h","a","p","t","e","r"," ","d">>,
       <<"s","u","b","c","h","a","p","t","e","r"," ","e">>,
       <<"s","u","b","c","h","a","p","t","e","r"," ","f">>,
       <<"s","u","b","c","h","a","p","t","e","r"," ","g">>,
       <<"s","u","b","c","h","a","p","t","e","r"," ","h">>,
       <<"s","u","b","c","h","a","p","t","e","r"," ","i">>,
       <<"s","u","b","c","h","a","p","t","e","r"," ","j">>,
       <<"s","u","b","c","h","a","p","t","e","r"," ","k">>,
       <<"s","u","b","c","h","a","p","t","e","r"," ","l">> >>

definition_keywords ==
    << <<"d","e","f","i","n","i","t","i","o","n">>,
       <<"d","e","f","i","n","i","t","i","o","n","s">> >>

requirement_indicators ==
    << <<"r","e","q","u","i","r","e","m","e","n","t">>,
       <<"r","e","q","u","i","r","e","m","e","n","t","s">>,
       <<"s","t","a","n","d","a","r","d">>,
       <<"s","t","a","n","d","a","r","d","s">>,
       <<"r","e","g","u","l","a","t","i","o","n">>,
       <<"r","e","g","u","l","a","t","i","o","n","s">>,
       <<"r","u","l","e">>,
       <<"r","u","l","e","s">>,
       <<"p","r","o","c","e","d","u","r","e">>,
       <<"p","r","o","c","e","d","u","r","e","s">>,
       <<"g","u","i","d","e","l","i","n","e">>,
       <<"g","u","i","d","e","l","i","n","e","s">>,
       <<"r","e","g","i","s","t","r","a","t","i","o","n">>,
       <<"l","a","b","e","l","i","n","g">>,
       <<"a","p","p","r","o","v","a","l">>,
       <<"m","a","n","u","f","a","c","t","u","r","i","n","g">>,
       <<"p","r","e","s","c","r","i","p","t","i","o","n">>,
       <<"r","e","c","o","r","d">>,
       <<"r","e","c","o","r","d","s">>,
       <<"r","e","p","o","r","t">>,
       <<"r","e","p","o","r","t","s">>,
       <<"q","u","o","t","a">>,
       <<"q","u","o","t","a","s">> >>

subject_keywords ==
    << <<"f","o","o","d">>,
       <<"d","r","u","g">>,
       <<"d","e","v","i","c","e">>,
       <<"c","o","n","t","r","o","l","l","e","d"," ","s","u","b","s","t","a","n","c","e">> >>

short_labels ==
    << <<"g","e","n","e","r","a","l">>,
       <<"d","e","f","i","n","i","t","i","o","n","s">> >>

-----------------------------------------------------------------------------
(* Return values                                                           *)

\* a reason: the format string of the source, the number it interpolates
\* (0 when none) and, for a reason written by the LLM, its text
Reason(fmt, n) == [fmt |-> fmt, n |-> n, text |-> <<>>]
LLMReason(text) == [fmt |-> "{llm}", n |-> 0, text |-> text]
NoReason == Reason("", 0)

\* `return (status, reason)` and an exception leaving the function
Return(status, reason) == [raised |-> "", status |-> status, reason |-> reason]
Raise(exc) == [raised |-> exc, status |-> "", reason |-> NoReason]
NoRet == [raised |-> "", status |-> "<not called>", reason |-> NoReason]
NoLLM == [raised |-> "", status |-> "<no llm call>", reason |-> NoReason]

RegulationStatus ==
    {"Prohibited", "Requires Compliance", "Reserved", "Administrative", "Unknown"}

-----------------------------------------------------------------------------
(* LLMRegulationAnalyzer.analyze_regulation_status                         *)

S_prohibit == <<"p","r","o","h","i","b","i","t">>
S_compliance == <<"c","o","m","p","l","i","a","n","c","e">>
S_requirement == <<"r","e","q","u","i","r","e","m","e","n","t">>
S_administrative == <<"a","d","m","i","n","i","s","t","r","a","t","i","v","e">>
S_admin == <<"a","d","m","i","n">>

\* the normalisation of the text after STATUS:
NormalizeStatus(raw) ==
    LET status_lower == Lower(Strip(raw))
    IN  IF Contains(S_prohibit, status_lower) THEN "Prohibited"
        ELSE IF Contains(S_compliance, status_lower)
                \/ Contains(S_requirement, status_lower) THEN "Requires Compliance"
        ELSE IF Contains(S_reserved, status_lower) THEN "Reserved"
        ELSE IF Contains(S_administrative, status_lower)
                \/ Contains(S_admin, status_lower) THEN "Administrative"
        ELSE "Unknown"

\* resp is the outcome of client.chat.completions.create: an API error, or a
\* reply whose STATUS: and REASON: lines are resp.status and resp.reason
\* (None when the reply has no such line)
LLMAnalyze(enabled, resp) ==
    IF ~enabled THEN Return("Unknown", Reason("LLM not configured", 0))
    ELSE IF resp.kind = "error"
         THEN Return("Unknown", Reason("LLM analysis failed: {e}", 0))
    ELSE Return(IF resp.status = None THEN "Unknown" ELSE NormalizeStatus(resp.status),
                IF resp.reason = None THEN Reason("Analysis completed", 0)
                ELSE LLMReason(Strip(resp.reason)))

-----------------------------------------------------------------------------
(* RegulationScraper.analyze_regulation_status                             *)

\* the guard of the fetch block
NeedsFetchAlways(u, c) == Truthy(u) /\ StartsWith(u, S_http)
NeedsFetch(u, c) == ~Truthy(c) /\ Truthy(u) /\ StartsWith(u, S_http)

\* the fetch block: f is what session.get and the extraction did.
\*   "error": an exception anywhere in the block      -> content = ''
\*   "keep" : status_code # 200 or no main content     -> content unchanged
\*   "text" : main content found, f.text its extracted prefix
FetchContent(u, c, f) ==
    IF ~NeedsFetch(u, c) THEN c
    ELSE CASE f.kind = "error" -> <<>>
           [] f.kind = "keep"  -> c
           [] f.kind = "text"  -> f.text

\* full_text = f"{description} {content}".strip().lower()
FullText(d, c) == Lower(Strip(Format(d) \o <<" ">> \o Format(c)))

\* the locals the keyword checks read
Locals(d, c) == [description_lower |-> Lower(d), full_text_lower |-> FullText(d, c)]

prohibited_in_desc(loc) == CountIn(prohibited_keywords, loc.description_lower)

prohibited_phrase_in_content(loc) == AnyIn(prohibited_phrases, loc.full_text_lower)
prohibited_phrase_in_desc(loc) == AnyIn(prohibited_phrases, loc.description_lower)

reserved_in_desc(loc) == Contains(S_reserved, loc.description_lower)
reserved_in_text(loc) == Contains(S_reserved, loc.full_text_lower)

allowed_count(loc) ==
    CountIn(allowed_keywords, loc.description_lower)
      + CountIn(allowed_keywords, loc.full_text_lower)

\* the keyword fallback, from `description_lower = description.lower()` on
KeywordPolicy(d, c) ==
    IF d = None THEN Raise("AttributeError")
    ELSE
    LET loc == Locals(d, c)
        dl == loc.description_lower
    IN  IF prohibited_phrase_in_desc(loc)
        THEN Return("Prohibited", Reason("Regulation explicitly prohibits activities (prohibition phrase found in description)", 0))
        ELSE IF prohibited_in_desc(loc) >= 2
        THEN Return("Prohibited", Reason("Contains {n} prohibition indicator(s) in description", prohibited_in_desc(loc)))
        ELSE IF reserved_in_text(loc)
        THEN Return("Reserved", Reason("Regulation section is reserved for future use", 0))
        ELSE IF AnyIn(organizational_keywords, dl) /\ InList(Strip(dl), organizational_labels)
        THEN Return("Administrative", Reason("Organizational structure", 0))
        ELSE IF AnyIn(definition_keywords, dl)
        THEN Return("Administrative", Reason("Definitions section", 0))
        ELSE IF AnyIn(requirement_indicators, dl)
        THEN Return("Requires Compliance", Reason("Establishes regulatory requirements that must be followed", 0))
        ELSE IF AnyIn(subject_keywords, dl)
        THEN Return("Requires Compliance", Reason("Regulatory requirement for compliance", 0))
        ELSE IF allowed_count(loc) > 0
        THEN Return("Requires Compliance", Reason("Regulatory requirement ({n} compliance indicators found)", allowed_count(loc)))
        ELSE IF Len(Strip(dl)) < 20 \/ InList(Strip(dl), short_labels)
        THEN Return("Administrative", Reason("Organizational structure", 0))
        ELSE Return("Requires Compliance", Reason("Regulatory provision", 0))

-----------------------------------------------------------------------------
(* Inputs of the classifier                                                *)

\* a description is up to MaxFrags of these fragments joined by blanks
Fragments ==
    << <<>>,
       <<"s","h","a","l","l"," ","n","o","t">>,
       <<"B","a","n","n","e","d">>,
       <<"u","n","l","a","w","f","u","l">>,
       <<"[","R","e","s","e","r","v","e","d","]">>,
       <<"C","h","a","p","t","e","r"," ","I">>,
       <<"D","e","f","i","n","i","t","i","o","n","s">>,
       <<"l","a","b","e","l","i","n","g">>,
       <<"d","r","u","g">>,
       <<"m","a","y">>,
       <<"m","i","s","c","e","l","l","a","n","e","o","u","s"," ","i","t","e","m","s"," ","h","e","r","e">> >>

MaxFrags == 2

RECURSIVE Join(_)
Join(fs) ==
    IF fs = <<>> THEN <<>>
    ELSE IF Len(fs) = 1 THEN Fragments[fs[1]]
    ELSE Fragments[fs[1]] \o <<" ">> \o Join(Tail(fs))

RECURSIVE FragSeqs(_)
FragSeqs(n) ==
    IF n = 0 THEN {<<>>}
    ELSE LET shorter == FragSeqs(n - 1)
         IN  shorter \cup {Append(s, k) : s \in {t \in shorter : Len(t) = n - 1},
                                          k \in 1..Len(Fragments)}

Descriptions == {Join(fs) : fs \in FragSeqs(MaxFrags)} \cup {None}

UrlHttp == <<"h","t","t","p",":","/","/","e">>
UrlFtp == <<"f","t","p",":","/","/","e">>
TxtShallNot == <<"T","h","e"," ","m","a","k","e","r"," ","s","h","a","l","l"," ","n","o","t"," ","o","m","i","t"," ","i","t">>
TxtReserved == <<"[","R","e","s","e","r","v","e","d","]">>
RawProhibited == <<"P","r","o","h","i","b","i","t","e","d">>
RawCompliance == <<"R","e","q","u","i","r","e","s"," ","C","o","m","p","l","i","a","n","c","e">>
RawReserved == <<"R","e","s","e","r","v","e","d">>
RawAdministrative == <<"A","d","m","i","n","i","s","t","r","a","t","i","v","e">>
RawUnknown == <<"U","n","k","n","o","w","n">>
RawOther == <<"A","l","l","o","w","e","d">>

Urls == {<<>>, UrlHttp, UrlFtp, None}
Contents == {<<>>, TxtShallNot, TxtReserved, None}

NoFetch == [kind |-> "none", text |-> <<>>]
FetchOutcomes ==
    {[kind |-> "error", text |-> <<>>], [kind |-> "keep", text |-> <<>>]}
      \cup {[kind |-> "text", text |-> t] : t \in {<<>>, TxtShallNot, TxtReserved}}

\* every value the `content` local can hold when the keyword fallback runs
EffectiveContents == Contents \cup {f.text : f \in FetchOutcomes}

\* the keyword fallback tabulated over the inputs, computed once
KeywordPolicyMemo ==
    [d \in Descriptions, c \in EffectiveContents |-> KeywordPolicy(d, c)]

NoResponse == [kind |-> "none", status |-> None, reason |-> None]
LLMResponses ==
    {[kind |-> "error", status |-> None, reason |-> None],
     [kind |-> "reply", status |-> None, reason |-> None],
     [kind |-> "reply", status |-> RawProhibited, reason |-> TxtShallNot],
     [kind |-> "reply", status |-> RawCompliance, reason |-> None],
     [kind |-> "reply", status |-> RawReserved, reason |-> <<" ">>],
     [kind |-> "reply", status |-> RawAdministrative, reason |-> TxtReserved],
     [kind |-> "reply", status |-> RawUnknown, reason |-> TxtReserved],
     [kind |-> "reply", status |-> RawOther, reason |-> TxtReserved]}

------------------------------------------------------------------------\* the LLM delegate tabulated over the modelled replies, computed once
LLMAnalyzeMemo == [resp \in LLMResponses |-> LLMAnalyze(TRUE, resp)]

\* `if result[0] != 'Unknown': return result`
llm_overrides_always(result) == TRUE
llm_overrides(result) == result.status # "Unknown"

\* the whole call.  The LLM delegate catches every exception of its own, so
\* the caller's `except` around it has nothing to catch.
AnalyzeRegulationStatus(d, u, c, analyzer, f, resp) ==
    LET content1 == FetchContent(u, c, f)
        use_llm == analyzer = "enabled"
        result == IF use_llm THEN LLMAnalyzeMemo[resp] ELSE NoLLM
    IN  [ret |-> IF use_llm /\ llm_overrides(result) THEN result
                 ELSE KeywordPolicyMemo[d, content1],
         content |-> content1,
         llm |-> result]

-----------------------------------------------------------------------------
(* Texts of regulation records.  A text is the first n characters of a     *)
(* named character stream; two different streams differ in their first     *)
(* character, so two texts are equal exactly when they are the same        *)
(* record, and s[:k] keeps the stream and clips the length.                *)

Empty == [s |-> "", n |-> 0]
Text(s, n) == IF n = 0 THEN Empty ELSE [s |-> s, n |-> n]

\* t[:k]
Prefix(t, k) == IF t.n <= k THEN t ELSE [s |-> t.s, n |-> k]

\* exact non-negative fractions stand for the float scores
Frac(a, b) == [num |-> a, den |-> b]
FracAdd(x, y) == Frac(x.num * y.den + y.num * x.den, x.den * y.den)
FracMul(x, y) == Frac(x.num * y.num, x.den * y.den)
FracEq(x, y) == x.num * y.den = y.num * x.den
FracLt(x, y) == x.num * y.den < y.num * x.den
FracLe(x, y) == x.num * y.den <= y.num * x.den
NoScore == Frac(-1, 1)      \* the key is absent from the dict

-----------------------------------------------------------------------------
(* RAGService: the rows it is given and the embedding model                *)

\* rows of the regulations table, as `SELECT * FROM regulations` yields them
Row(id, chapter, subchapter, part, section_range, desc, status) ==
    [id |-> id, title |-> Text("Title 21", 8), chapter |-> chapter,
     subchapter |-> subchapter, part |-> part, section_range |-> section_range,
     description |-> desc, url |-> Empty, status |-> status]

Row1 == Row(1, Text("ch1", 9), Text("subA", 12), Text("p1", 6), Text("s1", 10),
            Text("general", 40), "Administrative")
Row2 == Row(2, Text("ch2", 10), Empty, Empty, Empty,
            Text("labeling", 600), "Requires Compliance")
Row3 == Row(3, Text("ch2", 10), Empty, Text("p12", 7), Empty,
            Text("drugs", 30), "Requires Compliance")

\* the rows that get indexed, and the rows a keyword search may return
IndexedRows == {Row1, Row2}
KeywordRows == {Row1, Row2, Row3}

\* _create_searchable_text: the non-empty parts, later joined by " | "
SearchableText(reg) ==
    (IF reg.part # Empty THEN <<<<"Part ", reg.part>>>> ELSE <<>>)
      \o (IF reg.chapter # Empty THEN <<<<"Chapter ", reg.chapter>>>> ELSE <<>>)
      \o (IF reg.subchapter # Empty THEN <<<<"Subchapter ", reg.subchapter>>>> ELSE <<>>)
      \o (IF reg.description # Empty THEN <<<<"", reg.description>>>> ELSE <<>>)
      \o (IF reg.section_range # Empty THEN <<<<"Sections ", reg.section_range>>>> ELSE <<>>)

Query1 == <<<<"", Text("which drugs need labeling", 25)>>>>
Query2 == SearchableText(Row1)
Queries == {Query1, Query2}

\* embedding_model.encode: a fixed function of the text.  A vector is a
\* point of the integer line and the L2 distance of IndexFlatL2 the squared
\* difference.  Row1 and Row2 are equally far from Query1; Query2 is the
\* searchable text of Row1.
ZeroVector == 0
EmbeddingTable ==
    (SearchableText(Row1) :> 1) @@ (SearchableText(Row2) :> 3) @@ (Query1 :> 2)

encode(text) == IF text \in DOMAIN EmbeddingTable THEN EmbeddingTable[text] ELSE 4

Distance(a, b) == (a - b) * (a - b)

\* the distance FAISS reports for a missing neighbour (label -1); it stands
\* for the largest float
FltMax == 1000

\* _generate_embedding.  how: "vector" the model (or the OpenAI call)
\* answered, "zero" the OpenAI call raised, "none" no API key (returns None)
EmbeddingHows(local) == IF local THEN {"vector"} ELSE {"vector", "zero", "none"}
GenerateEmbedding(text, how) == IF how = "zero" THEN ZeroVector ELSE encode(text)

-----------------------------------------------------------------------------
(* RAGService state                                                        *)

NoIndex == [exists |-> FALSE, vectors |-> <<>>]       \* self.index is None
FaissIndex(vs) == [exists |-> TRUE, vectors |-> vs]
NoFile == [exists |-> FALSE, data |-> <<>>]
File(data) == [exists |-> TRUE, data |-> data]

\* the record of a call: its arguments, what it returned, whether it raised
NoCall == [op |-> "none", regs |-> <<>>, query |-> <<>>, n |-> 0,
           weight |-> 0, keyword |-> <<>>, semantic |-> <<>>, out |-> <<>>,
           count |-> 0, raised |-> FALSE, saved |-> FALSE]

\* the metadata entry index_regulations stores for a row
Metadata(reg) ==
    [id |-> reg.id, chapter |-> reg.chapter, subchapter |-> reg.subchapter,
     part |-> reg.part, description |-> Prefix(reg.description, 500),
     status |-> reg.status, url |-> reg.url,
     section_range |-> reg.section_range, title |-> reg.title]

\* bounds of the model
MaxRegs == 2        \* rows per index_regulations call
MaxVectors == 3     \* vectors the index may hold
MaxResults == 2     \* n_results
MaxKeyword == 2     \* rows in keyword_results

RECURSIVE SeqsOf(_, _)
\* the sequences of at most n distinct elements of S
SeqsOf(S, n) ==
    IF n = 0 THEN {<<>>}
    ELSE LET shorter == SeqsOf(S, n - 1)
         IN  shorter \cup
             {Append(q, x) : q \in {t \in shorter : Len(t) = n - 1}, x \in S}

Distinct(q) == \A i, j \in 1..Len(q) : i # j => q[i] # q[j]

RowLists == {q \in SeqsOf(IndexedRows, MaxRegs) : Distinct(q)}
KeywordLists == {q \in SeqsOf(KeywordRows, MaxKeyword) : Distinct(q)}

-----------------------------------------------------------------------------
(* RAGService.semantic_search                                              *)

Min(a, b) == IF a <= b THEN a ELSE b

\* index.search(query, k) of IndexFlatL2: k (label, distance) pairs, nearest
\* first, labels 0-based; vectors at equal distance come in either order; a
\* neighbour the index cannot supply has label -1 and distance FltMax
FaissSearch(vs, q, k) ==
    LET m == Min(k, Len(vs))
        D(x) == Distance(vs[x], q)
        tops == {p \in [1..m -> 1..Len(vs)] :
                   /\ \A i, j \in 1..m : i < j => (p[i] # p[j] /\ D(p[i]) <= D(p[j]))
                   /\ \A x \in 1..Len(vs) :
                        (\A i \in 1..m : p[i] # x) => (\A i \in 1..m : D(p[i]) <= D(x))}
    IN  {[i \in 1..k |-> IF i <= m THEN [label |-> p[i] - 1, distance |-> D(p[i])]
                                   ELSE [label |-> -1, distance |-> FltMax]] :
           p \in tops}

\* list[idx] with Python's negative indexing
PyItem(list, idx) == IF idx >= 0 THEN list[idx + 1] ELSE list[Len(list) + idx + 1]

\* filter_dict: none, or one of the keys the loop looks at
NoFilter == [key |-> "none", value |-> Empty]
Filters == {NoFilter, [key |-> "chapter", value |-> Text("ch1", 9)]}
Filtered(metadata, filter) ==
    \/ filter.key = "status" /\ metadata.status # filter.value
    \/ filter.key = "chapter" /\ metadata.chapter # filter.value

\* an entry of a result list: the regulation fields, relevance_score, and
\* the combined_score and source keys hybrid_search adds
Entry(reg, relevance, combined, source) ==
    [reg |-> reg, relevance_score |-> relevance, combined_score |-> combined,
     source |-> source]

\* similarity_score = 1.0 / (1.0 + distance)
SimilarityOther(distance) == Frac(1 + distance, 1)
Similarity(distance) == Frac(1, 1 + distance)

RECURSIVE SearchLoop(_, _, _, _, _)
\* the loop over indices[0], with its break at n_results entries
SearchLoop(hits, metadata, n_results, filter, regulations) ==
    IF hits = <<>> THEN regulations
    ELSE LET idx == Head(hits).label
         IN  IF idx < Len(metadata) /\ ~Filtered(PyItem(metadata, idx), filter)
             THEN LET found == Append(regulations,
                                 Entry(PyItem(metadata, idx),
                                       Similarity(Head(hits).distance), NoScore, ""))
                  IN  IF Len(found) >= n_results THEN found
                      ELSE SearchLoop(Tail(hits), metadata, n_results, filter, found)
             ELSE SearchLoop(Tail(hits), metadata, n_results, filter, regulations)

\* number of neighbours asked of FAISS: min(n_results * 2, len(metadata))
SearchWidthNarrow(n_results, metadata) == Min(n_results, Len(metadata))
SearchWidth(n_results, metadata) == Min(n_results * 2, Len(metadata))

\* every list semantic_search can return in the state (idx, metadata,
\* indexed): one per way the query embedding and the FAISS tie order can go
SemanticSearch(idx, metadata, indexed, local, query, n_results, filter) ==
    IF ~indexed \/ ~idx.exists THEN {<<>>}
    ELSE UNION {
           IF how = "none" THEN {<<>>}       \* None.reshape raises; caught
           ELSE {SearchLoop(hits, metadata, n_results, filter, <<>>) :
                   hits \in FaissSearch(idx.vectors, GenerateEmbedding(query, how),
                                        SearchWidth(n_results, metadata))} :
           how \in EmbeddingHows(local)}

-----------------------------------------------------------------------------
(* RAGService.hybrid_search                                                *)

\* semantic_weight in tenths
Weight(w) == Frac(w, 10)
Weights == {0, 7, 10}

\* combined[reg_id] = entry: a new key goes last, a known key keeps its place
Put(combined, e) ==
    IF \E p \in 1..Len(combined) : combined[p].reg.id = e.reg.id
    THEN [combined EXCEPT
            ![CHOOSE p \in 1..Len(combined) : combined[p].reg.id = e.reg.id] = e]
    ELSE Append(combined, e)

RECURSIVE AddSemantic(_, _, _)
\* the loop over semantic_results
AddSemantic(combined, semantic_results, w) ==
    IF semantic_results = <<>> THEN combined
    ELSE LET result == Head(semantic_results)
         IN  AddSemantic(
               Put(combined, Entry(result.reg, result.relevance_score,
                                   FracMul(result.relevance_score, Weight(w)),
                                   "semantic")),
               Tail(semantic_results), w)

\* keyword_score = keyword_weight * (1.0 / (i + 1)), keyword_weight = 1 - w
KeywordScoreFlat(w, i) == Weight(10 - w)
KeywordScore(w, i) == FracMul(Weight(10 - w), Frac(1, i + 1))

\* the branch taken for a keyword result whose id is already in combined
MergeBothReplace(e, keyword_score) ==
    [e EXCEPT !.combined_score = keyword_score, !.source = "both"]
MergeBoth(e, keyword_score) ==
    [e EXCEPT !.combined_score = FracAdd(@, keyword_score), !.source = "both"]

RECURSIVE AddKeyword(_, _, _, _)
\* the loop over keyword_results, i counting from 0
AddKeyword(combined, keyword_results, w, i) ==
    IF keyword_results = <<>> THEN combined
    ELSE LET result == Head(keyword_results)
             keyword_score == KeywordScore(w, i)
             known == {p \in 1..Len(combined) : combined[p].reg.id = result.id}
         IN  AddKeyword(
               IF known # {}
               THEN [combined EXCEPT
                       ![CHOOSE p \in known : TRUE] = MergeBoth(@, keyword_score)]
               ELSE Append(combined, Entry(result, NoScore, keyword_score, "keyword")),
               Tail(keyword_results), w, i + 1)

\* sorted(..., key=combined_score, reverse=True) inserts each entry behind
\* the entries that score at least as much: a stable descending sort
InsertDescUnstable(sorted, e) ==
    LET ahead == Cardinality({p \in 1..Len(sorted) :
                                FracLt(e.combined_score, sorted[p].combined_score)})
    IN  SubSeq(sorted, 1, ahead) \o <<e>> \o SubSeq(sorted, ahead + 1, Len(sorted))
InsertDesc(sorted, e) ==
    LET ahead == Cardinality({p \in 1..Len(sorted) :
                                FracLe(e.combined_score, sorted[p].combined_score)})
    IN  SubSeq(sorted, 1, ahead) \o <<e>> \o SubSeq(sorted, ahead + 1, Len(sorted))

RECURSIVE SortDesc(_, _)
SortDesc(sorted, rest) ==
    IF rest = <<>> THEN sorted ELSE SortDesc(InsertDesc(sorted, Head(rest)), Tail(rest))

\* list[:n]
Take(list, n) == SubSeq(list, 1, Min(n, Len(list)))

\* hybrid_search after its semantic_search call
HybridMerge(semantic_results, keyword_results, w, n_results) ==
    IF keyword_results = <<>> THEN Take(semantic_results, n_results)
    ELSE Take(SortDesc(<<>>, AddKeyword(AddSemantic(<<>>, semantic_results, w),
                                        keyword_results, w, 0)),
              n_results)

-----------------------------------------------------------------------------
(* regulations.db: the rows a scraper hands to the refresh, and the change *)
(* detection of refresh_regulations.update_regulations                     *)

\* a dict value that is None (a NULL column)
NoneText == [s |-> "<None>", n |-> 0]

\* str(x or ''): None and '' both read as the empty string
Str(x) == IF x = NoneText THEN Empty ELSE x

\* a status as the text the status column holds
StatusText(status) ==
    CASE status = "Requires Compliance" -> Text(status, 19)
      [] status = "Administrative" -> Text(status, 14)
      [] status = "Prohibited" -> Text(status, 10)
      [] status = "Reserved" -> Text(status, 8)
      [] status = "Unknown" -> Text(status, 7)
      [] OTHER -> Empty

\* a text as the pieces it is concatenated from; '' has none
Chunks(t) == IF t = Empty THEN <<>> ELSE <<t>>

\* the dict a scraper yields for a regulation: no id, no status yet
ScrapedFrom(row) == [row EXCEPT !.id = 0, !.status = ""]

\* RecA and RecB carry the fields of Row1 and Row2.  RecA2 shares the lookup
\* key of RecA and differs from it in section_range and in a url that is
\* None instead of ''; RecB2 shares the first 100 characters of RecB's
\* description but is 50 characters longer and has a url.
RecA == ScrapedFrom(Row1)
RecA2 == [RecA EXCEPT !.section_range = Text("s2", 10), !.url = NoneText]
RecB == ScrapedFrom(Row2)
RecB2 == [RecB EXCEPT !.description = Text("labeling", 650),
                      !.url = Text("https://www.ecfr.gov/", 40)]
ScrapedRecords == {RecA, RecA2, RecB, RecB2}

\* _get_sample_regulations: a fixed non-empty list of dicts that come with a
\* status of their own
RecS == [RecA EXCEPT !.part = Text("Part 1", 6),
                     !.description = Text("General provisions", 90),
                     !.url = Text("https://www.ecfr.gov/", 70),
                     !.status = "Prohibited"]
SampleRegulations == <<RecS>>

\* `if not regulations: regulations = scraper._get_sample_regulations()`
RegulationsAsScraped(scraped) == scraped
Regulations(scraped) == IF scraped = <<>> THEN SampleRegulations ELSE scraped

\* bounds of the store
MaxIncoming == 2    \* records per refresh
MaxIds == 4         \* rows ever inserted into regulations

\* what a scraper can return when it returns something
IncomingLists == SeqsOf(ScrapedRecords, MaxIncoming)

\* what the scrapers of a refresh can return: nothing, or some records
ScrapedLists == {<<>>} \cup IncomingLists

\* the statuses analyze_regulation_status gives during a refresh: the
\* outcome depends on the page fetched and on the LLM, not on the row alone
AnalysisOutcomes == {"Requires Compliance", "Administrative"}

\* f"{part}|{description[:100]}", as the pair of its two parts
LookupKey(reg) == <<reg.part, Prefix(reg.description, 100)>>

\* existing_regs: the rows of SELECT * FROM regulations by lookup key, a
\* later row replacing an earlier one with the same key
ExistingRegs(rows) ==
    LET keys == {LookupKey(rows[i]) : i \in 1..Len(rows)}
        lastOf(k) == CHOOSE i \in 1..Len(rows) :
                       /\ LookupKey(rows[i]) = k
                       /\ \A j \in (i + 1)..Len(rows) : LookupKey(rows[j]) # k
    IN  [k \in keys |-> rows[lastOf(k)]]

\* existing_regs.get(lookup_key) is a row (a non-empty dict)
KnownNever(existing_regs, key) == FALSE
Known(existing_regs, key) == key \in DOMAIN existing_regs

fields_to_check == <<"description", "status", "url", "section_range">>

\* str(reg.get(field, '') or '')
FieldValue(reg, field) ==
    Str(IF field = "status" THEN StatusText(reg.status) ELSE reg[field])

\* old_val[:500], new_val[:500]
LimitNone(value) == value
Limit(value) == Prefix(value, 500)

\* a row of regulation_changes; the INSERT names no notified column, which
\* takes its DEFAULT 0
Change(regulation_id, change_type, field_name, old_value, new_value) ==
    [regulation_id |-> regulation_id, change_type |-> change_type,
     field_name |-> field_name, old_value |-> old_value, new_value |-> new_value,
     notified |-> FALSE]

\* `if old_val != new_val`, on the values before they are cut
DiffersAlways(old_val, new_val) == TRUE
Differs(old_val, new_val) == old_val # new_val

\* one 'updated' row per field of fields_to_check that differs, in that order
UpdatedChanges(new_reg_id, existing_reg, reg) ==
    LET changed == SelectSeq(fields_to_check, LAMBDA field :
                     Differs(FieldValue(existing_reg, field), FieldValue(reg, field)))
    IN  [k \in 1..Len(changed) |->
           Change(new_reg_id, "updated", changed[k],
                  Chunks(Limit(FieldValue(existing_reg, changed[k]))),
                  Chunks(Limit(FieldValue(reg, changed[k]))))]

\* reg.get('part', '') + ': ' + reg.get('description', '')[:100]
AddedValueFull(reg) == Chunks(reg.part) \o <<Text(": ", 2)>> \o Chunks(reg.description)
AddedValue(reg) ==
    Chunks(reg.part) \o <<Text(": ", 2)>> \o Chunks(Prefix(reg.description, 100))

\* the rows written to regulation_changes for one incoming record
DetectChanges(existing_regs, new_reg_id, reg) ==
    IF Known(existing_regs, LookupKey(reg))
    THEN UpdatedChanges(new_reg_id, existing_regs[LookupKey(reg)], reg)
    ELSE <<Change(new_reg_id, "added", "regulation", <<>>, AddedValue(reg))>>

\* the row INSERT INTO regulations writes, as a later SELECT yields it
Inserted(reg, id, status) == [reg EXCEPT !.id = id, !.status = status]

\* load_initial_data stores reg.get('status', 'Unknown')
LoadedStatus(reg) == IF reg.status = "" THEN "Unknown" ELSE reg.status

\* a second update_regulations thread between its SELECT and its DELETE:
\* none, or the thread with its records and the snapshot it has read
NoWaiter == [pc |-> "none", incoming |-> <<>>, existing_regs |-> <<>>]

\* the writer thread between runs.  ended tells how the thread of the last
\* committed run ended, waiter is the thread waiting for the write lock
NoTxn ==
    [pc |-> "idle", kind |-> "", incoming |-> <<>>, i |-> 0, existing_regs |-> <<>>,
     pre |-> <<>>, regs |-> <<>>, changes |-> <<>>, seq |-> 0, outcome |-> "none",
     ended |-> "", waiter |-> NoWaiter]

\* the statements after the loop's conn.commit().  update_regulations closes
\* the connection and then calls conn.commit() on it again, which raises
\* sqlite3.ProgrammingError before the last print; load_initial_data closes
\* the connection and prints
AfterCommit(kind) == IF kind = "refresh" THEN "raised" ELSE "reported"

\* what a statement on another connection reads while the writer's
\* transaction is open: sqlite shows it the committed rows
ReadUncommitted(table, t) == IF t.pc = "idle" THEN table ELSE t.regs
ReadCommitted(table, t) == table

\* what the table holds once a connection with an open transaction is
\* dropped without commit: sqlite rolls the transaction back
RollbackKeeps(table, t) == t.regs
Rollback(table, t) == table

\* a response of a route; NoResponseYet before any request
NoResponseYet ==
    [route |-> "none", code |-> 0, search_method |-> "", results |-> <<>>,
     semantic |-> <<>>, keyword |-> <<>>, indexed_count |-> 0]

StoreIdle ==
    /\ regulations_table = <<>>
    /\ regulation_changes = <<>>
    /\ sqlite_sequence = 0
    /\ txn = NoTxn
    /\ seen = {}
    /\ response = NoResponseYet

-----------------------------------------------------------------------------
(* The classifier as a state machine: the arguments and the scraper's      *)
(* llm_analyzer are fixed by Init, every step is one call                  *)

RagIdle ==
    /\ use_local_embeddings = TRUE
    /\ index = NoIndex
    /\ regulations_metadata = <<>>
    /\ is_indexed = FALSE
    /\ index_file = NoFile
    /\ metadata_file = NoFile
    /\ last = NoCall

InitClassifier ==
    /\ description \in Descriptions
    /\ url \in Urls
    /\ content \in Contents
    /\ llm_analyzer \in {"none", "disabled", "enabled"}
    /\ called = FALSE
    /\ ret = NoRet
    /\ eff_content = <<>>
    /\ llm_result = NoLLM
    /\ RagIdle
    /\ StoreIdle

Analyze(f, resp) ==
    LET out == AnalyzeRegulationStatus(description, url, content, llm_analyzer, f, resp)
    IN  /\ called' = TRUE
        /\ ret' = out.ret
        /\ eff_content' = out.content
        /\ llm_result' = out.llm
        /\ UNCHANGED <<description, url, content, llm_analyzer, rag_vars, store_vars>>

NextClassifier ==
    \E f \in IF NeedsFetch(url, content) THEN FetchOutcomes ELSE {NoFetch} :
      \E resp \in IF llm_analyzer = "enabled" THEN LLMResponses ELSE {NoResponse} :
        Analyze(f, resp)

SpecClassifier == InitClassifier /\ [][NextClassifier]_vars

-----------------------------------------------------------------------------
(* RAGService as a state machine                                           *)

\* RAGService() in a directory without snapshot files
InitRag ==
    /\ description = <<>> /\ url = <<>> /\ content = <<>>
    /\ llm_analyzer = "none" /\ called = FALSE /\ ret = NoRet
    /\ eff_content = <<>> /\ llm_result = NoLLM
    /\ use_local_embeddings \in BOOLEAN
    /\ index = NoIndex
    /\ regulations_metadata = <<>>
    /\ is_indexed = FALSE
    /\ index_file = NoFile
    /\ metadata_file = NoFile
    /\ last = NoCall
    /\ StoreIdle

\* json.dump / json.load of the metadata list: a str becomes a JSON string,
\* None becomes null, the int id a number, and back
JsonString(x) ==
    IF x = NoneText THEN [type |-> "null", text |-> Empty, number |-> 0]
    ELSE [type |-> "string", text |-> x, number |-> 0]
FromJson(j) ==
    CASE j.type = "null" -> NoneText
      [] j.type = "string" -> j.text
      [] j.type = "number" -> j.number
JsonDump(metadata) ==
    [i \in 1..Len(metadata) |->
       [id |-> [type |-> "number", text |-> Empty, number |-> metadata[i].id],
        chapter |-> JsonString(metadata[i].chapter),
        subchapter |-> JsonString(metadata[i].subchapter),
        part |-> JsonString(metadata[i].part),
        description |-> JsonString(metadata[i].description),
        status |-> [type |-> "string", text |-> metadata[i].status, number |-> 0],
        url |-> JsonString(metadata[i].url),
        section_range |-> JsonString(metadata[i].section_range),
        title |-> JsonString(metadata[i].title)]]
JsonLoad(data) ==
    [i \in 1..Len(data) |-> [key \in DOMAIN data[i] |-> FromJson(data[i][key])]]

\* the fields of a RAGService together with its two snapshot files
RagState ==
    [index |-> index, regulations_metadata |-> regulations_metadata,
     is_indexed |-> is_indexed, index_file |-> index_file,
     metadata_file |-> metadata_file]

\* the step leaves the service and its files as s says
SetRag(s) ==
    /\ index' = s.index
    /\ regulations_metadata' = s.regulations_metadata
    /\ is_indexed' = s.is_indexed
    /\ index_file' = s.index_file
    /\ metadata_file' = s.metadata_file

\* _load_index when both files exist and can be read
LoadedUnindexed(s) ==
    [s EXCEPT !.index = FaissIndex(s.index_file.data),
              !.regulations_metadata = JsonLoad(s.metadata_file.data),
              !.is_indexed = FALSE]
Loaded(s) ==
    [s EXCEPT !.index = FaissIndex(s.index_file.data),
              !.regulations_metadata = JsonLoad(s.metadata_file.data),
              !.is_indexed = (Len(JsonLoad(s.metadata_file.data)) > 0)]

\* every list the service s can return for a query, with embedding backend
\* local
Answers(s, local, query, n_results, filter) ==
    SemanticSearch(s.index, s.regulations_metadata, s.is_indexed, local,
                   query, n_results, filter)

\* a process start: __init__ and _load_index.  local: the sentence
\* transformer loaded; readable: the two snapshot files could be read
Construct(local, readable) ==
    /\ last = NoCall
    /\ use_local_embeddings' = local
    /\ IF index_file.exists /\ metadata_file.exists /\ readable
       THEN /\ index' = Loaded(RagState).index
            /\ regulations_metadata' = Loaded(RagState).regulations_metadata
            /\ is_indexed' = Loaded(RagState).is_indexed
       ELSE /\ index' = NoIndex
            /\ regulations_metadata' = <<>>
            /\ is_indexed' = FALSE
    /\ last' = [NoCall EXCEPT !.op = "construct"]
    /\ UNCHANGED <<index_file, metadata_file, classifier_vars, store_vars>>

\* clear_index.  removed: os.remove succeeded (a failure is caught)
Cleared(s, removed) ==
    [s EXCEPT !.index = NoIndex, !.regulations_metadata = <<>>, !.is_indexed = FALSE,
              !.index_file = IF removed THEN NoFile ELSE @,
              !.metadata_file = IF removed THEN NoFile ELSE @]

ClearIndex(removed) ==
    /\ last = NoCall
    /\ SetRag(Cleared(RagState, removed))
    /\ last' = [NoCall EXCEPT !.op = "clear"]
    /\ UNCHANGED <<use_local_embeddings, classifier_vars, store_vars>>

\* the index after `if self.index is None: ...; self.index.add(embeddings)`
AddedFresh(idx, embeddings) == FaissIndex(embeddings)
Added(idx, embeddings) == FaissIndex(idx.vectors \o embeddings)

\* index_regulations.  how: what _generate_embedding did for the rows of
\* this call; saved: _save_index wrote the snapshot (a failure is caught).
\* The outcome: the service afterwards, the count returned, whether it raised
Indexing(s, regulations, how, saved) ==
    IF regulations = <<>>
    THEN [rag |-> s, count |-> 0, raised |-> FALSE]
    ELSE IF how = "none"
    THEN \* an array of None is one-dimensional: index.add raises after
         \* the index was created
         [rag |-> [s EXCEPT !.index = IF @.exists THEN @ ELSE FaissIndex(<<>>)],
          count |-> 0, raised |-> TRUE]
    ELSE LET embeddings == [i \in 1..Len(regulations) |->
                              GenerateEmbedding(SearchableText(regulations[i]), how)]
             metadata == [i \in 1..Len(regulations) |-> Metadata(regulations[i])]
         IN  [rag |-> [s EXCEPT
                         !.index = Added(s.index, embeddings),
                         !.regulations_metadata = metadata,
                         !.is_indexed = TRUE,
                         !.index_file = IF saved
                                        THEN File(Added(s.index, embeddings).vectors)
                                        ELSE @,
                         !.metadata_file = IF saved THEN File(JsonDump(metadata)) ELSE @],
              count |-> Len(regulations), raised |-> FALSE]

IndexRegulations(regulations, how, saved) ==
    /\ last = NoCall
    /\ Len(index.vectors) + Len(regulations) <= MaxVectors
    /\ LET done == Indexing(RagState, regulations, how, saved)
       IN  /\ SetRag(done.rag)
           /\ last' = [NoCall EXCEPT !.op = "index", !.regs = regulations,
                                     !.count = done.count, !.raised = done.raised,
                                     !.saved = saved /\ done.count > 0]
    /\ UNCHANGED <<use_local_embeddings, classifier_vars, store_vars>>

\* semantic_search(query, n_results, filter_dict)
SemanticSearchCall(query, n_results, filter) ==
    /\ last = NoCall
    /\ \E out \in SemanticSearch(index, regulations_metadata, is_indexed,
                                 use_local_embeddings, query, n_results, filter) :
         last' = [NoCall EXCEPT !.op = "semantic_search", !.query = query,
                                !.n = n_results, !.out = out]
    /\ UNCHANGED <<use_local_embeddings, index, regulations_metadata, is_indexed,
                   index_file, metadata_file, classifier_vars, store_vars>>

\* hybrid_search(query, n_results, keyword_results, semantic_weight)
HybridSearchCall(query, n_results, keyword_results, w) ==
    /\ last = NoCall
    /\ \E semantic_results \in
            SemanticSearch(index, regulations_metadata, is_indexed,
                           use_local_embeddings, query, n_results * 2, NoFilter) :
         last' = [NoCall EXCEPT
                    !.op = "hybrid_search", !.query = query, !.n = n_results,
                    !.weight = w, !.keyword = keyword_results,
                    !.semantic = semantic_results,
                    !.out = HybridMerge(semantic_results, keyword_results, w, n_results)]
    /\ UNCHANGED <<use_local_embeddings, index, regulations_metadata, is_indexed,
                   index_file, metadata_file, classifier_vars, store_vars>>

\* the caller has taken the outcome of the call
Done ==
    /\ last # NoCall
    /\ last' = NoCall
    /\ UNCHANGED <<use_local_embeddings, index, regulations_metadata, is_indexed,
                   index_file, metadata_file, classifier_vars, store_vars>>

NextIndex ==
    \/ Done
    \/ \E local, readable \in BOOLEAN : Construct(local, readable)
    \/ \E removed \in BOOLEAN : ClearIndex(removed)
    \/ \E regulations \in RowLists, saved \in BOOLEAN :
         \E how \in EmbeddingHows(use_local_embeddings) :
           IndexRegulations(regulations, how, saved)

NextRag ==
    \/ NextIndex
    \/ \E query \in Queries, n_results \in 1..MaxResults, filter \in Filters :
         SemanticSearchCall(query, n_results, filter)

\* the index operations with a disk that works
NextIndexSound ==
    \/ Done
    \/ \E local \in BOOLEAN : Construct(local, TRUE)
    \/ ClearIndex(TRUE)
    \/ \E regulations \in RowLists :
         \E how \in EmbeddingHows(use_local_embeddings) :
           IndexRegulations(regulations, how, TRUE)

NextHybrid ==
    \/ NextIndexSound
    \/ \E query \in Queries, n_results \in 1..MaxResults,
          keyword_results \in KeywordLists, w \in Weights :
         HybridSearchCall(query, n_results, keyword_results, w)

SpecRag == InitRag /\ [][NextRag]_vars
SpecHybrid == InitRag /\ [][NextHybrid]_vars

-----------------------------------------------------------------------------
(* regulations.db as a state machine: one writer thread at a time (sqlite  *)
(* gives the write lock to one connection), readers on other connections   *)

\* DELETE FROM regulations, which opens the transaction and takes the
\* write lock, by a thread that holds the records incoming and has read
\* the snapshot existing_regs; waiter is the other thread, if any
DeleteRegulations(kind, incoming, existing_regs, waiter) ==
    /\ txn.pc = "idle"
    /\ last = NoCall
    /\ sqlite_sequence + Len(incoming) <= MaxIds
    /\ txn' = [pc |-> "loop", kind |-> kind, incoming |-> incoming, i |-> 1,
               existing_regs |-> existing_regs,
               pre |-> regulations_table, regs |-> <<>>, changes |-> <<>>,
               seq |-> sqlite_sequence, outcome |-> "none", ended |-> "",
               waiter |-> waiter]
    /\ UNCHANGED <<regulations_table, regulation_changes, sqlite_sequence, seen,
                   response, classifier_vars, rag_vars>>

\* the statements up to DELETE FROM regulations, run without another
\* thread's statement in between.  kind: "refresh" for update_regulations,
\* "load" for load_initial_data (which reads no existing rows)
WriterStart(kind, incoming) ==
    DeleteRegulations(kind, incoming,
                      IF kind = "refresh" THEN ExistingRegs(regulations_table) ELSE <<>>,
                      txn.waiter)

\* update_regulations: regulations comes from the scrapers, or is the
\* sample list when they return nothing
UpdateRegulationsStart(scraped) == WriterStart("refresh", Regulations(scraped))

\* load_initial_data: nothing is written when the scraper returns nothing
LoadInitialDataStart(incoming) ==
    /\ incoming # <<>>
    /\ WriterStart("load", incoming)

\* one pass of `for reg in regulations` of update_regulations: the status
\* analysis, the INSERT and the change detection
UpdateRegulationsRecord(status) ==
    /\ txn.pc = "loop" /\ txn.kind = "refresh" /\ txn.i <= Len(txn.incoming)
    /\ LET reg == [txn.incoming[txn.i] EXCEPT !.status = status]
           new_reg_id == txn.seq + 1
       IN  txn' = [txn EXCEPT
                     !.regs = Append(@, Inserted(reg, new_reg_id, status)),
                     !.changes = @ \o DetectChanges(txn.existing_regs, new_reg_id, reg),
                     !.seq = new_reg_id,
                     !.i = @ + 1]
    /\ UNCHANGED <<regulations_table, regulation_changes, sqlite_sequence, seen,
                   response, classifier_vars, rag_vars>>

\* one pass of `for reg in regulations` of load_initial_data
LoadInitialDataRecord ==
    /\ txn.pc = "loop" /\ txn.kind = "load" /\ txn.i <= Len(txn.incoming)
    /\ LET reg == txn.incoming[txn.i]
       IN  txn' = [txn EXCEPT
                     !.regs = Append(@, Inserted(reg, txn.seq + 1, LoadedStatus(reg))),
                     !.seq = @ + 1,
                     !.i = @ + 1]
    /\ UNCHANGED <<regulations_table, regulation_changes, sqlite_sequence, seen,
                   response, classifier_vars, rag_vars>>

\* regulation_changes once the INSERTs of a run are committed: the rows it
\* had, then the rows of the run
LoggedAlone(log, changes) == changes
Logged(log, changes) == log \o changes

\* conn.commit() after the loop, and the statements of the thread after it
Commit ==
    /\ txn.pc = "loop" /\ txn.i > Len(txn.incoming)
    /\ regulations_table' = txn.regs
    /\ regulation_changes' = Logged(regulation_changes, txn.changes)
    /\ sqlite_sequence' = txn.seq
    /\ txn' = [NoTxn EXCEPT !.outcome = "committed", !.kind = txn.kind,
                            !.ended = AfterCommit(txn.kind), !.waiter = txn.waiter]
    /\ UNCHANGED <<seen, response, classifier_vars, rag_vars>>

\* an exception inside the loop ends the thread; its connection is dropped
\* with the transaction open
Fail ==
    /\ txn.pc = "loop" /\ txn.i <= Len(txn.incoming)
    /\ regulations_table' = Rollback(regulations_table, txn)
    /\ txn' = [txn EXCEPT !.pc = "idle", !.outcome = "failed"]
    /\ UNCHANGED <<regulation_changes, sqlite_sequence, seen, response,
                   classifier_vars, rag_vars>>

\* GET /api/regulations?include_administrative=true&include_reserved=true
\* on its own connection; seen is the set of rows of its answer
GetRegulations ==
    /\ seen' = LET rows == ReadCommitted(regulations_table, txn)
               IN  {rows[i] : i \in 1..Len(rows)}
    /\ seen' # seen
    /\ UNCHANGED <<regulations_table, regulation_changes, sqlite_sequence, txn,
                   response, classifier_vars, rag_vars>>

NextWriter ==
    \/ \E scraped \in ScrapedLists : UpdateRegulationsStart(scraped)
    \/ \E status \in AnalysisOutcomes : UpdateRegulationsRecord(status)
    \/ Commit
    \/ Fail

NextStore ==
    \/ NextWriter
    \/ \E incoming \in IncomingLists : LoadInitialDataStart(incoming)
    \/ LoadInitialDataRecord
    \/ GetRegulations

\* a fresh regulations.db (init_db) and a RAGService without snapshot files
InitStore == InitRag /\ use_local_embeddings = TRUE

SpecStore == InitStore /\ [][NextStore]_vars

-----------------------------------------------------------------------------
(* Properties of the refresh (SpecStore)                                   *)

\* the writer is update_regulations and has processed record j
Processed(j) == txn.kind = "refresh" /\ j \in 1..(txn.i - 1)

\* the id INSERT gave to record j of the run
NewId(j) == txn.regs[j].id

\* the change rows of the run that point at record j
ChangesOf(j) == SelectSeq(txn.changes, LAMBDA ch : ch.regulation_id = NewId(j))

\* the rows of a table without their ids
Unnumbered(rows) == [i \in 1..Len(rows) |-> [rows[i] EXCEPT !.id = 0]]

\* total number of characters of a value
RECURSIVE Length(_)
Length(value) == IF value = <<>> THEN 0 ELSE Head(value).n + Length(Tail(value))

\* C11 as claimed: a refresh that inserts the very rows of the previous
\* snapshot (same fields, same analysed status, same order) writes no
\* change row, whatever the previous snapshot.
C11_Idempotence ==
    (txn.kind = "refresh" /\ txn.i > Len(txn.incoming)
       /\ Unnumbered(txn.regs) = Unnumbered(txn.pre))
      => txn.changes = <<>>

\* C12: an incoming record whose lookup key is absent from the previous
\* snapshot yields exactly one change row: 'added', 'regulation', empty
\* old_value, new_value = part + ': ' + description[:100]; it yields no
\* 'updated' row.
C12_AddDetection ==
    \A j \in 1..Len(txn.regs) :
      (Processed(j) /\ LookupKey(txn.regs[j]) \notin {LookupKey(txn.pre[k]) : k \in 1..Len(txn.pre)})
        => LET reg == txn.regs[j]
           IN  /\ Len(ChangesOf(j)) = 1
               /\ ChangesOf(j)[1].change_type = "added"
               /\ ChangesOf(j)[1].field_name = "regulation"
               /\ ChangesOf(j)[1].old_value = <<>>
               /\ ChangesOf(j)[1].new_value =
                    Chunks(reg.part) \o <<Text(": ", 2)>>
                      \o Chunks(Prefix(reg.description, 100))
               /\ Length(ChangesOf(j)[1].new_value) <= reg.part.n + 102

\* an added record with a description longer than 100 characters
C12_Witness ==
    \E j \in 1..Len(txn.regs) :
      /\ Processed(j)
      /\ LookupKey(txn.regs[j]) \notin {LookupKey(txn.pre[k]) : k \in 1..Len(txn.pre)}
      /\ txn.regs[j].description.n > 100
      /\ txn.pre # <<>>

\* the previous row an incoming record is compared with: the last row of
\* the previous snapshot with its lookup key
Matched(j) ==
    txn.pre[CHOOSE k \in 1..Len(txn.pre) :
              /\ LookupKey(txn.pre[k]) = LookupKey(txn.regs[j])
              /\ \A m \in (k + 1)..Len(txn.pre) :
                   LookupKey(txn.pre[m]) # LookupKey(txn.regs[j])]

\* position of a field in (description, status, url, section_range)
FieldOrder(field) == CHOOSE k \in 1..4 : fields_to_check[k] = field

\* C13: for an incoming record whose lookup key is in the previous snapshot
\* there is exactly one 'updated' row per field of (description, status,
\* url, section_range) whose stringified value differs from the matched
\* previous row, none for an equal field, no 'added' row; the rows follow
\* the incoming order and the field order, and old_value and new_value are
\* the first 500 characters of the two values.
C13_UpdateDetection ==
    /\ \A j \in 1..Len(txn.regs) :
         (Processed(j) /\ LookupKey(txn.regs[j]) \in {LookupKey(txn.pre[k]) : k \in 1..Len(txn.pre)})
           => /\ \A c \in 1..Len(ChangesOf(j)) :
                   /\ ChangesOf(j)[c].change_type = "updated"
                   /\ Length(ChangesOf(j)[c].old_value) <= 500
                   /\ Length(ChangesOf(j)[c].new_value) <= 500
              /\ \A f \in 1..4 :
                   LET field == fields_to_check[f]
                       old == Str(IF field = "status" THEN StatusText(Matched(j).status)
                                                      ELSE Matched(j)[field])
                       new == Str(IF field = "status" THEN StatusText(txn.regs[j].status)
                                                      ELSE txn.regs[j][field])
                       rows == SelectSeq(ChangesOf(j), LAMBDA ch : ch.field_name = field)
                   IN  /\ Len(rows) = IF old = new THEN 0 ELSE 1
                       /\ old # new =>
                            /\ rows[1].old_value = Chunks(Prefix(old, 500))
                            /\ rows[1].new_value = Chunks(Prefix(new, 500))
    /\ txn.kind = "refresh" =>
         \A a, b \in 1..Len(txn.changes) :
           a < b =>
             \/ txn.changes[a].regulation_id < txn.changes[b].regulation_id
             \/ /\ txn.changes[a].regulation_id = txn.changes[b].regulation_id
                /\ txn.changes[a].change_type = "updated"
                /\ FieldOrder(txn.changes[a].field_name) < FieldOrder(txn.changes[b].field_name)

\* a matched record with two differing fields, one of them a description
\* longer than 500 characters that is cut, and an unchanged field
C13_Witness ==
    \E j \in 1..Len(txn.regs) :
      /\ Processed(j)
      /\ Len(ChangesOf(j)) >= 2
      /\ ChangesOf(j)[1].change_type = "updated"
      /\ ChangesOf(j)[1].field_name = "description"
      /\ Matched(j).description.n > 500
      /\ Length(ChangesOf(j)[1].new_value) = 500
      /\ Matched(j).section_range = txn.regs[j].section_range

\* the rows of a complete run: one per incoming record, in order
Complete(rows, incoming) ==
    /\ Len(rows) = Len(incoming)
    /\ \A i \in 1..Len(rows) :
         [rows[i] EXCEPT !.id = 0, !.status = ""] = [incoming[i] EXCEPT !.status = ""]

\* C14: a reader sees the complete pre-refresh rows until the commit and
\* the complete post-refresh rows after it: while the writer is between
\* DELETE and commit a read returns the rows that were there before the
\* DELETE, and the committed table only ever changes to one row per
\* incoming record.
C14_AtomicReplacement ==
    [][/\ (seen' # seen /\ txn.pc = "loop")
            => seen' = {txn.pre[i] : i \in 1..Len(txn.pre)}
       /\ regulations_table' # regulations_table
            => Complete(regulations_table', txn.incoming)]_vars

\* a read between the DELETE and the commit, after a row was inserted,
\* that returned the non-empty previous rows
C14_Witness ==
    /\ txn.pc = "loop" /\ txn.i > 1
    /\ seen # {}
    /\ seen = {txn.pre[i] : i \in 1..Len(txn.pre)}
    /\ seen # {txn.regs[i] : i \in 1..Len(txn.regs)}

\* C15: a run that fails between the DELETE and the commit leaves the
\* committed regulations, change rows and id sequence as they were.
C15_FailedRefresh ==
    [][(txn.pc = "loop" /\ txn'.outcome = "failed")
         => /\ regulations_table' = regulations_table
            /\ regulation_changes' = regulation_changes
            /\ sqlite_sequence' = sqlite_sequence
            /\ regulations_table' = txn.pre]_vars

\* a refresh failed after it had inserted a row and written a change row,
\* and the table still holds the previous rows
C15_Witness ==
    /\ txn.outcome = "failed" /\ txn.kind = "refresh"
    /\ txn.i > 1 /\ txn.changes # <<>>
    /\ regulations_table # <<>>
    /\ regulations_table = txn.pre

\* the lookup keys of the previous snapshot; record j has a key not in it
PreKeys == {LookupKey(txn.pre[k]) : k \in 1..Len(txn.pre)}
NewKey(j) == LookupKey(txn.regs[j]) \notin PreKeys

\* C26: a refresh writes one row per processed record with a new lookup
\* key plus one row per compared field that differs on a matched record,
\* and nothing else: every row points at a record of this run, so a record
\* of the previous snapshot that is absent from the incoming list gets none.
C26_DeletionsSilent ==
    (txn.kind = "refresh" /\ txn.pc = "loop")
      => LET done == 1..(txn.i - 1)
             added == {j \in done : NewKey(j)}
             differing ==
               {p \in done \X (1..4) :
                  /\ ~NewKey(p[1])
                  /\ FieldValue(Matched(p[1]), fields_to_check[p[2]])
                       # FieldValue(txn.regs[p[1]], fields_to_check[p[2]])}
         IN  /\ Len(txn.changes) = Cardinality(added) + Cardinality(differing)
             /\ \A c \in 1..Len(txn.changes) :
                  /\ txn.changes[c].regulation_id \in {NewId(j) : j \in done}
                  /\ txn.changes[c].change_type \in {"added", "updated"}

\* a finished loop over a list that lacks a key of the previous snapshot
\* and updates another
C26_Witness ==
    /\ txn.kind = "refresh" /\ txn.pc = "loop" /\ txn.i > Len(txn.incoming)
    /\ \E k \in 1..Len(txn.pre) :
         LookupKey(txn.pre[k]) \notin {LookupKey(txn.regs[j]) : j \in 1..Len(txn.regs)}
    /\ \E c \in 1..Len(txn.changes) : txn.changes[c].change_type = "updated"

\* C27: the change log only grows at its end: every step keeps the rows it
\* had, in place and unchanged, and every row has notified = false.
C27_AppendOnly ==
    [][/\ Len(regulation_changes') >= Len(regulation_changes)
       /\ SubSeq(regulation_changes', 1, Len(regulation_changes)) = regulation_changes
       /\ \A k \in 1..Len(regulation_changes') : ~regulation_changes'[k].notified]_vars

\* a log that holds the rows of two committed refreshes
C27_Witness ==
    /\ txn.outcome = "committed"
    /\ \E a, b \in 1..Len(regulation_changes) :
         /\ a < b
         /\ regulation_changes[a].change_type = "added"
         /\ regulation_changes[b].change_type = "updated"
         /\ regulation_changes[a].regulation_id < regulation_changes[b].regulation_id

\* C28 as claimed: the stored old_value and new_value of every 'updated'
\* row differ.
C28_Original ==
    \A c \in 1..Len(txn.changes) :
      txn.changes[c].change_type = "updated"
        => txn.changes[c].old_value # txn.changes[c].new_value

\* C28 amended: every row written for a matched record is an 'updated' row
\* of a field whose values differ before they are cut; its stored values
\* are equal only when both values have at least 500 characters and the
\* same first 500.
C28_UpdatedDiffer ==
    \A j \in 1..Len(txn.regs) :
      (Processed(j) /\ ~NewKey(j))
        => \A c \in 1..Len(ChangesOf(j)) :
             LET ch == ChangesOf(j)[c]
                 old_val == FieldValue(Matched(j), ch.field_name)
                 new_val == FieldValue(txn.regs[j], ch.field_name)
             IN  /\ ch.change_type = "updated"
                 /\ old_val # new_val
                 /\ ch.old_value = ch.new_value
                      => /\ old_val.n >= 500 /\ new_val.n >= 500
                         /\ Prefix(old_val, 500) = Prefix(new_val, 500)

\* an 'updated' row of description whose stored values are the same
C28_Witness ==
    \E j \in 1..Len(txn.regs) :
      /\ Processed(j) /\ ~NewKey(j)
      /\ \E c \in 1..Len(ChangesOf(j)) :
           /\ ChangesOf(j)[c].field_name = "description"
           /\ ChangesOf(j)[c].old_value = ChangesOf(j)[c].new_value

\* C29 as claimed: the thread of a committed refresh reaches its last print.
C29_WorkerCompletes ==
    (txn.outcome = "committed" /\ txn.kind = "refresh") => txn.ended = "reported"

-----------------------------------------------------------------------------
(* The routes of app.py that use both the table and the vector index       *)

\* a query the keyword search finds: the first word of Row2's description
Query3 == <<<<"", Text("labeling", 8)>>>>
RouteQueries == {Query1, Query3}

\* n_results and semantic_weight (in tenths) that /api/search passes
RouteResults == 20
RouteWeight == 7

\* `column LIKE '%query%'` on the texts of the model: the column begins
\* with the query
Like(query, column) ==
    /\ Len(query) = 1 /\ query[1][1] = ""
    /\ query[1][2].s = column.s /\ query[1][2].n <= column.n

\* RegulationScraper.search_regulations for a query without a part or
\* section number and without the word 'reserved'.  The rows come ORDER BY
\* chapter, subchapter, part; rows equal in these keep the table's order
KeywordSearch(rows, query) ==
    SelectSeq(rows, LAMBDA r :
      /\ \/ Like(query, r.description) \/ Like(query, r.part)
         \/ Like(query, r.subchapter) \/ Like(query, r.section_range)
         \/ Like(query, r.chapter)
      /\ r.status # "Reserved")

\* POST /api/search.  agent.process_query writes search_history on its own
\* connection: while the writer thread holds the write lock the INSERT
\* raises, in the try block and again in the fallback, and the request
\* fails
SearchRoute(query, use_rag) ==
    /\ response = NoResponseYet
    /\ last = NoCall
    /\ LET keyword_results == KeywordSearch(ReadCommitted(regulations_table, txn), query)
       IN  IF txn.pc = "loop"
           THEN response' = [NoResponseYet EXCEPT !.route = "search", !.code = 500]
           ELSE IF use_rag /\ is_indexed
           THEN \E semantic_results \in
                     SemanticSearch(index, regulations_metadata, is_indexed,
                                    use_local_embeddings, query, RouteResults * 2, NoFilter) :
                  response' = [NoResponseYet EXCEPT
                                 !.route = "search", !.code = 200,
                                 !.search_method = "rag_hybrid",
                                 !.results = HybridMerge(semantic_results, keyword_results,
                                                         RouteWeight, RouteResults),
                                 !.semantic = semantic_results,
                                 !.keyword = keyword_results]
           ELSE response' = [NoResponseYet EXCEPT
                               !.route = "search", !.code = 200,
                               !.search_method = "keyword",
                               !.results = keyword_results,
                               !.keyword = keyword_results]
    /\ UNCHANGED <<regulations_table, regulation_changes, sqlite_sequence, txn, seen,
                   classifier_vars, rag_vars>>

\* POST /api/rag/index (and initialize_rag): the rows of the table,
\* clear_index, then index_regulations; an exception answers 500
IndexRag(how, removed, saved) ==
    /\ response = NoResponseYet
    /\ last = NoCall
    /\ LET regulations == ReadCommitted(regulations_table, txn)
           done == Indexing(Cleared(RagState, removed), regulations, how, saved)
       IN  /\ Len(regulations) <= MaxVectors
           /\ IF regulations = <<>>
              THEN /\ response' = [NoResponseYet EXCEPT !.route = "index_rag", !.code = 400]
                   /\ UNCHANGED <<index, regulations_metadata, is_indexed, index_file,
                                  metadata_file>>
              ELSE /\ SetRag(done.rag)
                   /\ response' = [NoResponseYet EXCEPT
                                     !.route = "index_rag",
                                     !.code = IF done.raised THEN 500 ELSE 200,
                                     !.indexed_count = done.count]
    /\ UNCHANGED <<regulations_table, regulation_changes, sqlite_sequence, txn, seen,
                   use_local_embeddings, last, classifier_vars>>

\* the client has the response
Respond ==
    /\ response # NoResponseYet
    /\ response' = NoResponseYet
    /\ UNCHANGED <<regulations_table, regulation_changes, sqlite_sequence, txn, seen,
                   classifier_vars, rag_vars>>

\* what the scraper returns in the runs of the whole application
AppIncomingLists == SeqsOf({RecA, RecB}, MaxIncoming)

NextApp ==
    \/ \E incoming \in AppIncomingLists : UpdateRegulationsStart(incoming)
    \/ \E status \in AnalysisOutcomes : UpdateRegulationsRecord(status)
    \/ Commit
    \/ \E saved \in BOOLEAN :
         \E how \in EmbeddingHows(use_local_embeddings) : IndexRag(how, TRUE, saved)
    \/ \E query \in RouteQueries, use_rag \in BOOLEAN : SearchRoute(query, use_rag)
    \/ Respond

SpecApp == InitRag /\ [][NextApp]_vars

-----------------------------------------------------------------------------
(* Two refresh threads.  POST /api/refresh starts update_regulations in a  *)
(* thread of its own, whatever other thread is running                     *)

\* the scrapers and SELECT * FROM regulations of an update_regulations
\* thread: the SELECT opens no transaction and reads the committed rows,
\* also while another thread is inside its loop
UpdateRegulationsSelect(scraped) ==
    /\ txn.waiter = NoWaiter
    /\ last = NoCall
    /\ txn' = [txn EXCEPT !.waiter =
                 [pc |-> "selected", incoming |-> Regulations(scraped),
                  existing_regs |-> ExistingRegs(ReadCommitted(regulations_table, txn))]]
    /\ UNCHANGED <<regulations_table, regulation_changes, sqlite_sequence, seen,
                   response, classifier_vars, rag_vars>>

\* its DELETE FROM regulations, once no other connection holds the write
\* lock; the thread goes on with the snapshot it read before
UpdateRegulationsDelete ==
    /\ txn.waiter.pc = "selected"
    /\ DeleteRegulations("refresh", txn.waiter.incoming, txn.waiter.existing_regs,
                         NoWaiter)

\* its DELETE waits 5 seconds for the lock another thread still holds and
\* raises sqlite3.OperationalError, which ends the thread
LockTimeout ==
    /\ txn.waiter.pc = "selected"
    /\ txn.pc = "loop"
    /\ txn' = [txn EXCEPT !.waiter = NoWaiter]
    /\ UNCHANGED <<regulations_table, regulation_changes, sqlite_sequence, seen,
                   response, classifier_vars, rag_vars>>

\* what the scrapers return in the runs with two refresh threads
RaceLists == {<<>>} \cup AppIncomingLists

NextRace ==
    \/ \E scraped \in RaceLists : UpdateRegulationsSelect(scraped)
    \/ UpdateRegulationsDelete
    \/ LockTimeout
    \/ \E status \in AnalysisOutcomes : UpdateRegulationsRecord(status)
    \/ Commit

SpecRace == InitStore /\ [][NextRace]_vars

-----------------------------------------------------------------------------
(* Properties of two refresh threads (SpecRace)                            *)

RECURSIVE SerialChanges(_)
\* the change rows of the first j records of the run when they are compared
\* with the table its DELETE emptied
SerialChanges(j) ==
    IF j = 0 THEN <<>>
    ELSE SerialChanges(j - 1)
           \o DetectChanges(ExistingRegs(txn.pre), txn.regs[j].id, txn.regs[j])

\* C25 as claimed: the change rows of a refresh are those of a run that
\* read its snapshot when it replaced the table, that is, of the refreshes
\* run one after the other.
C25_SerialRefreshes ==
    (txn.pc = "loop" /\ txn.kind = "refresh")
      => txn.changes = SerialChanges(txn.i - 1)

-----------------------------------------------------------------------------
(* Properties of the application (SpecApp)                                 *)

\* C16 as claimed: when the reindex of /api/rag/index fails, the index that
\* worked before it is still in place: same vectors, same metadata, still
\* indexed.
C16_AllOrNothing ==
    [][(response'.route = "index_rag" /\ response.route = "none"
          /\ response'.code = 500 /\ is_indexed)
         => /\ is_indexed'
            /\ index' = index
            /\ regulations_metadata' = regulations_metadata]_vars

\* C17 as claimed: once a refresh has committed, every entry semantic_search
\* returns carries the id of a row of the regulations table, and that row
\* has the entry's part and description.
C17_IndexFollowsStore ==
    (txn.pc = "idle" /\ txn.outcome = "committed")
      => \A query \in RouteQueries :
           \A out \in Answers(RagState, use_local_embeddings, query, RouteResults, NoFilter) :
             \A i \in 1..Len(out) :
               \E k \in 1..Len(regulations_table) :
                 /\ regulations_table[k].id = out[i].reg.id
                 /\ regulations_table[k].part = out[i].reg.part
                 /\ Prefix(regulations_table[k].description, 500) = out[i].reg.description

\* C18 as claimed: every search answers with a list and the method that
\* produced it: rag_hybrid only when semantic and keyword results were
\* merged, keyword when no semantic result took part, semantic when only
\* semantic results did; no search fails.
C18_MethodIndicator ==
    response.route = "search"
      => /\ response.code = 200
         /\ response.search_method = "rag_hybrid"
              => (response.semantic # <<>> /\ response.keyword # <<>>)
         /\ response.semantic = <<>>
              => response.search_method \in {"keyword", "keyword_fallback"}
         /\ (response.semantic # <<>> /\ response.keyword = <<>>)
              => response.search_method = "semantic"

\* C24 as claimed: a search issued while a refresh is inside its loop of
\* fetching and classifying is answered, without failing.
C24_SearchDuringRefresh ==
    [][(txn.pc = "loop" /\ txn.kind = "refresh"
          /\ response.route = "none" /\ response'.route = "search")
         => response'.code = 200]_vars

-----------------------------------------------------------------------------
(* Properties of the vector index (SpecRag)                                *)

\* C6 as claimed: when index_regulations returns for a non-empty list, the
\* index holds exactly one vector per row of this call, vector i being the
\* embedding of row i and metadata entry i its metadata, and the call
\* returns the number of rows.
C6_IndexReplaced ==
    (last.op = "index" /\ last.regs # <<>> /\ ~last.raised)
      => /\ index.exists
         /\ last.count = Len(last.regs)
         /\ Len(regulations_metadata) = Len(last.regs)
         /\ Len(index.vectors) = Len(last.regs)
         /\ \A i \in 1..Len(last.regs) :
              /\ regulations_metadata[i] = Metadata(last.regs[i])
              /\ i <= Len(index.vectors)
                   => index.vectors[i] \in {encode(SearchableText(last.regs[i])), ZeroVector}

\* the distances a stored vector can have to the query of the call
QueryDistances ==
    {Distance(index.vectors[i], q) :
       i \in 1..Len(index.vectors), q \in {encode(last.query), ZeroVector}}
      \cup {FltMax}

\* C7: semantic_search returns at most n_results entries, their scores do
\* not increase along the list, every score is 1/(1+distance) for the
\* distance of a stored vector to the query and is positive, and the list
\* is empty when the index is not built.
C7_SemanticSearch ==
    last.op = "semantic_search"
      => /\ Len(last.out) <= last.n
         /\ \A i, j \in 1..Len(last.out) :
              i < j => FracLe(last.out[j].relevance_score, last.out[i].relevance_score)
         /\ \A i \in 1..Len(last.out) :
              LET score == last.out[i].relevance_score
              IN  /\ score.num > 0 /\ score.den > 0
                  /\ \E d \in QueryDistances : score.num * (1 + d) = score.den
         /\ (~is_indexed \/ ~index.exists) => last.out = <<>>

\* two hits, the nearer one first with the strictly higher score
C7_Witness ==
    /\ last.op = "semantic_search"
    /\ Len(last.out) = 2
    /\ FracLt(last.out[2].relevance_score, last.out[1].relevance_score)

C20_EmptyInput ==
    (last.op = "index" /\ last.regs = <<>>)
      => /\ last.count = 0
         /\ ~is_indexed
         /\ \A query \in Queries, n \in 1..MaxResults :
              Answers(RagState, use_local_embeddings, query, n, NoFilter) = {<<>>}

-----------------------------------------------------------------------------
(* Properties of the hybrid ranker (SpecHybrid)                            *)

HybridCall == last.op = "hybrid_search"
SemanticIds == [i \in 1..Len(last.semantic) |-> last.semantic[i].reg.id]
KeywordIds == [i \in 1..Len(last.keyword) |-> last.keyword[i].id]
OutIds == [i \in 1..Len(last.out) |-> last.out[i].reg.id]
InSeq(q, x) == \E i \in 1..Len(q) : q[i] = x
PosIn(q, x) == CHOOSE i \in 1..Len(q) : q[i] = x

\* similarity(id) * semantic_weight and (1 - semantic_weight) / (rank + 1)
SemanticPart(id) ==
    IF InSeq(SemanticIds, id)
    THEN LET sim == last.semantic[PosIn(SemanticIds, id)].relevance_score
         IN  Frac(sim.num * last.weight, sim.den * 10)
    ELSE Frac(0, 1)
KeywordPart(id) ==
    IF InSeq(KeywordIds, id)
    THEN Frac(10 - last.weight, 10 * PosIn(KeywordIds, id))
    ELSE Frac(0, 1)
ExpectedScore(id) == FracAdd(SemanticPart(id), KeywordPart(id))

\* C8: with a non-empty keyword list every returned id carries its semantic
\* contribution if it is in the semantic list plus its keyword contribution
\* if it is in the keyword list, and is tagged both exactly when it is in
\* both lists, else semantic or keyword.
C8_CombinedScore ==
    (HybridCall /\ last.keyword # <<>>)
      => \A i \in 1..Len(last.out) :
           LET e == last.out[i]
               sem == InSeq(SemanticIds, e.reg.id)
               kw == InSeq(KeywordIds, e.reg.id)
           IN  /\ FracEq(e.combined_score, ExpectedScore(e.reg.id))
               /\ e.source = "both" <=> (sem /\ kw)
               /\ e.source = "semantic" <=> (sem /\ ~kw)
               /\ e.source = "keyword" <=> (kw /\ ~sem)

\* the second keyword hit is also a semantic hit and carries both parts
C8_Witness ==
    /\ HybridCall /\ last.weight = 7
    /\ Len(last.keyword) = 2
    /\ \E i \in 1..Len(last.out) :
         /\ last.out[i].source = "both"
         /\ last.out[i].reg.id = last.keyword[2].id

\* place of an id in the order the entries are collected: the semantic
\* entries in semantic order, then the keyword-only entries in keyword order
OriginalPos(id) ==
    IF InSeq(SemanticIds, id) THEN PosIn(SemanticIds, id)
    ELSE Len(SemanticIds) + PosIn(KeywordIds, id)
Candidates ==
    {SemanticIds[i] : i \in 1..Len(SemanticIds)}
      \cup {KeywordIds[i] : i \in 1..Len(KeywordIds)}
Before(a, b) ==
    \/ FracLt(ExpectedScore(b), ExpectedScore(a))
    \/ FracEq(ExpectedScore(a), ExpectedScore(b)) /\ OriginalPos(a) < OriginalPos(b)

\* C9: the result lists each id once, in order of non-increasing combined
\* score with equal scores in their original relative order, and is the
\* first n_results entries of that ordering of all the ids.
C9_Ordering ==
    HybridCall
      => /\ Distinct(OutIds)
         /\ Len(OutIds) = Min(last.n, Cardinality(Candidates))
         /\ \A i \in 1..Len(OutIds) : OutIds[i] \in Candidates
         /\ \A i, j \in 1..Len(OutIds) : i < j => Before(OutIds[i], OutIds[j])
         /\ \A x \in Candidates :
              ~InSeq(OutIds, x) => \A i \in 1..Len(OutIds) : Before(OutIds[i], x)
         /\ last.keyword # <<>> =>
              \A i, j \in 1..Len(last.out) :
                i < j => FracLe(last.out[j].combined_score, last.out[i].combined_score)

\* two entries of equal combined score, kept in their original order
C9_Witness ==
    /\ HybridCall /\ last.keyword # <<>>
    /\ Len(last.out) = 2
    /\ FracEq(last.out[1].combined_score, last.out[2].combined_score)
    /\ OriginalPos(OutIds[1]) < OriginalPos(OutIds[2])

Take2(q, n) == SubSeq(q, 1, Min(n, Len(q)))

\* C10 as claimed: with semantic_weight 1.0 the result is the semantic list
\* cut to n_results, with semantic_weight 0.0 the keyword list cut to
\* n_results.
C10_WeightDegeneracy ==
    HybridCall
      => /\ last.weight = 10 => OutIds = Take2(SemanticIds, last.n)
         /\ last.weight = 0 => OutIds = Take2(KeywordIds, last.n)

\* the score a returned entry carries: its combined_score, or its
\* relevance_score when it has no combined_score key
ScoreOf(e) == IF e.combined_score = NoScore THEN e.relevance_score ELSE e.combined_score

\* C21 as claimed: with an empty keyword list the result is the semantic
\* list cut to n_results, in semantic order, and every returned entry's
\* score is similarity * semantic_weight.
C21_EmptyKeyword ==
    (HybridCall /\ last.keyword = <<>>)
      => /\ OutIds = Take2(SemanticIds, last.n)
         /\ \A i \in 1..Len(last.out) :
              FracEq(ScoreOf(last.out[i]), SemanticPart(last.out[i].reg.id))

\* C23: for a semantic_weight strictly between 0 and 1, an id of both the
\* semantic and the keyword list carries a combined score strictly greater
\* than its semantic contribution and strictly greater than its keyword
\* contribution.
C23_BothBeatsEither ==
    (HybridCall /\ last.weight > 0 /\ last.weight < 10)
      => \A i \in 1..Len(last.out) :
           LET e == last.out[i]
           IN  (InSeq(SemanticIds, e.reg.id) /\ InSeq(KeywordIds, e.reg.id))
                 => /\ FracLt(SemanticPart(e.reg.id), e.combined_score)
                    /\ FracLt(KeywordPart(e.reg.id), e.combined_score)

\* an id that is the second hit of both lists, under weight 0.7
C23_Witness ==
    /\ HybridCall /\ last.weight = 7
    /\ \E i \in 1..Len(last.out) :
         /\ last.out[i].source = "both"
         /\ Len(last.semantic) = 2 /\ Len(last.keyword) = 2
         /\ last.out[i].reg.id = last.semantic[2].reg.id
         /\ last.out[i].reg.id = last.keyword[2].id

-----------------------------------------------------------------------------
(* Properties of the classifier (SpecClassifier)                           *)

Range(list) == {list[k] : k \in 1..Len(list)}

\* the call took the keyword path: no LLM, or the LLM answered Unknown
KeywordPath == llm_analyzer # "enabled" \/ llm_result.status = "Unknown"

\* the ten rules of the priority list, read on the lower-cased description dl
\* and the lower-cased content cl (no content when it is null)
ContentText(c) == IF c = None THEN <<>> ELSE Lower(c)
Rule1(dl) == \E p \in Range(prohibited_phrases) : Contains(p, dl)
Rule2(dl) == Cardinality({kw \in Range(prohibited_keywords) : Contains(kw, dl)}) >= 2
Rule3(dl, cl) == Contains(S_reserved, dl) \/ Contains(S_reserved, cl)
Rule4(dl) == Strip(dl) \in Range(organizational_labels)
Rule5(dl) == \E kw \in Range(definition_keywords) : Contains(kw, dl)
Rule6(dl) == \E kw \in Range(requirement_indicators) : Contains(kw, dl)
Rule7(dl) == \E kw \in Range(subject_keywords) : Contains(kw, dl)
Rule8(dl, cl) == \E kw \in Range(allowed_keywords) : Contains(kw, dl) \/ Contains(kw, cl)
Rule9(dl) == Len(Strip(dl)) < 20 \/ Strip(dl) \in Range(short_labels)

FirstMatchStatus(d, c) ==
    LET dl == Lower(d)
        cl == ContentText(c)
    IN  CASE Rule1(dl) -> "Prohibited"
          [] ~Rule1(dl) /\ Rule2(dl) -> "Prohibited"
          [] ~Rule1(dl) /\ ~Rule2(dl) /\ Rule3(dl, cl) -> "Reserved"
          [] ~Rule1(dl) /\ ~Rule2(dl) /\ ~Rule3(dl, cl) ->
               IF Rule4(dl) THEN "Administrative"
               ELSE IF Rule5(dl) THEN "Administrative"
               ELSE IF Rule6(dl) THEN "Requires Compliance"
               ELSE IF Rule7(dl) THEN "Requires Compliance"
               ELSE IF Rule8(dl, cl) THEN "Requires Compliance"
               ELSE IF Rule9(dl) THEN "Administrative"
               ELSE "Requires Compliance"

FirstMatchTable ==
    [d \in Descriptions \ {None}, c \in EffectiveContents |-> FirstMatchStatus(d, c)]

DescriptionProhibitsTable ==
    [d \in Descriptions \ {None} |-> Rule1(Lower(d)) \/ Rule2(Lower(d))]

\* C1: on the keyword path the call returns the status of the first matching
\* rule of the priority list (prohibition phrase, two prohibition keywords,
\* reserved, chapter label, definition, requirement indicator, subject,
\* allowance keyword, short description, default), so a description with a
\* prohibition phrase and requirement keywords is Prohibited.
C1_PriorityOrder ==
    (called /\ KeywordPath /\ description # None)
      => /\ ret.raised = ""
         /\ ret.status = FirstMatchTable[description, eff_content]

\* "shall not labeling": prohibition phrase and requirement keyword together
C1_Witness ==
    /\ called /\ llm_analyzer = "disabled"
    /\ description = Join(<<2, 8>>)
    /\ ret.status = "Prohibited"

\* C2: on the keyword path the call returns Prohibited exactly when the
\* description alone holds a prohibition phrase or two prohibition
\* keywords, whatever the supplied or fetched content says.
C2_ContentIsolation ==
    (called /\ KeywordPath /\ description # None)
      => (ret.status = "Prohibited" <=> DescriptionProhibitsTable[description])

\* "labeling" with fetched page text "... shall not ..." is not Prohibited
C2_Witness ==
    /\ called /\ llm_analyzer = "none"
    /\ description = Join(<<8>>)
    /\ content = <<>> /\ eff_content = TxtShallNot
    /\ ret.status = "Requires Compliance"

\* C3: an enabled LLM whose answer is not Unknown is returned verbatim;
\* otherwise the call returns what the keyword policy yields on the same
\* description and content.
C3_Override ==
    called =>
      IF llm_analyzer = "enabled" /\ llm_result.status # "Unknown"
      THEN ret = llm_result
      ELSE /\ ret = KeywordPolicyMemo[description, eff_content]
           /\ llm_analyzer = "enabled" => llm_result.status = "Unknown"
           /\ llm_analyzer # "enabled" => llm_result = NoLLM

\* the LLM says Reserved where the keyword policy would say Prohibited
C3_Witness ==
    /\ called /\ llm_analyzer = "enabled"
    /\ description = Join(<<2>>)
    /\ llm_result.status = "Reserved" /\ ret = llm_result

\* the LLM answered Unknown and the keyword policy decided
C3_WitnessFallback ==
    /\ called /\ llm_analyzer = "enabled"
    /\ llm_result.status = "Unknown"
    /\ ret.status = "Prohibited"

\* C4 as claimed: without an LLM, every call with the same description, url
\* and content returns the same (status, reason), whatever the fetch does.
C4_Original ==
    [][(called /\ llm_analyzer # "enabled") => ret' = ret]_vars

\* the arguments make the call skip the fetch block
NoFetchArguments ==
    \/ content \notin {<<>>, None}
    \/ url \in {<<>>, None}
    \/ ~StartsWith(url, S_http)

\* C4 as amended: without an LLM, two calls with the same arguments return
\* the same (status, reason) when the arguments make the call skip the
\* fetch, and when both fetches leave the same content.
C4_Determinism ==
    [][(called /\ llm_analyzer # "enabled"
          /\ (NoFetchArguments \/ eff_content' = eff_content))
        => ret' = ret]_vars

\* supplied content wins over an http url: no fetch, Reserved from the content
C4_Witness ==
    /\ called /\ llm_analyzer = "disabled"
    /\ description = Join(<<8>>)
    /\ url = UrlHttp /\ content = TxtReserved
    /\ ret.status = "Reserved"

\* C5 as claimed: the call never raises and returns one of the five statuses.
C5_NeverRaises ==
    called => ret.raised = "" /\ ret.status \in RegulationStatus

\* a reason with at least one character: the text the LLM gave, or the
\* format string of the policy
NonEmptyReason(reason) ==
    IF reason.fmt = "{llm}" THEN reason.text # <<>> ELSE reason.fmt # ""

\* C22 as claimed: every (status, reason) the function returns, from the
\* keyword policy or from the LLM, has a non-empty reason.
C22_ReasonNonEmpty ==
    (called /\ ret.raised = "") => NonEmptyReason(ret.reason)

=============================================================================
